---- MODULE Spec2Model ----
(***************************************************************************)
(* Model of driftwatch: the buffered, retrying ingestion client            *)
(* (src/app/driftwatch_client.py).  One DriftWatchClient instance, the     *)
(* inference_events table it writes to, and the wall clock it reads.       *)
(* time.time() is an input from the environment: the model keeps the       *)
(* latest reading, in whole seconds, and readings never go back.           *)
(***************************************************************************)
EXTENDS Integers, Sequences, FiniteSets, Bags, TLC

\* ------------------------------------------------------------------------
\* Bounds of the model
\* ------------------------------------------------------------------------

\* Capacity of the deque.  The source sets 5000 (driftwatch_client.py:15);
\* the model is parametric in it and is explored with a small capacity.
MAX_BUFFER == 2

\* log_inference calls accepted beyond the capacity of the buffer.
MaxExtra == 1

\* Last reading of the wall clock that is explored (seconds).
MaxTime == 2

\* The most the clock reading advances while one flush() runs (seconds).
MaxStall == 1

\* Write attempts, over the whole run, whose commit took effect although the
\* attempt reported an error.
MaxAmbiguous == 1

MaxEvents == MAX_BUFFER + MaxExtra

\* ------------------------------------------------------------------------
\* Program constants (driftwatch_client.py:14-20)
\* ------------------------------------------------------------------------
DEFAULT_BATCH_SIZE == 50
DEFAULT_FLUSH_SECONDS == 5
MAX_RETRIES == 5

\* ------------------------------------------------------------------------
\* Python values that reach the sanitizer
\* ------------------------------------------------------------------------
\* A value is a record: its Python type, its printed value, and, for a
\* container, the values it holds.
Scalar(t, x) == [type |-> t, v |-> x, items |-> <<>>]
PyNone == Scalar("NoneType", "None")
PyFloat(x) == Scalar("float", x)
PyDict(vals) == [type |-> "dict", v |-> "", items |-> vals]
PyList(vals) == [type |-> "list", v |-> "", items |-> vals]

\* math.isnan(val) or math.isinf(val), for a float
IsNanOrInf(val) == val.v \in {"nan", "inf", "-inf"}

\* DriftWatchClient._sanitize with NaN left alone (isinf only).
SanitizeInfOnly(val) ==
    IF val.type = "NoneType" THEN PyNone
    ELSE IF val.type = "float" /\ val.v \in {"inf", "-inf"} THEN PyNone
    ELSE val

\* DriftWatchClient._sanitize
_sanitize(val) ==
    IF val.type = "NoneType" THEN PyNone
    ELSE IF val.type = "float" /\ IsNanOrInf(val) THEN PyNone
    ELSE val

\* {k: self._sanitize(v) for k, v in d.items()}: one pass over the values of
\* the mapping itself.
SanitizeMap(d) ==
    [d EXCEPT !.items = [i \in DOMAIN d.items |-> _sanitize(d.items[i])]]


\* ------------------------------------------------------------------------
\* State
\* ------------------------------------------------------------------------
VARIABLES
    enabled,            \* self.enabled
    dsn,                \* self.dsn ("None" when the variable is unset)
    batch_size,         \* self.batch_size
    flush_seconds,      \* self.flush_seconds (seconds)
    buffer,             \* self.buffer, oldest event first
    last_flush_time,    \* self.last_flush_time
    dropped_events,     \* self.dropped_events
    flush_failures,     \* self.flush_failures
    insert_success,     \* self.insert_success
    inference_events,   \* rows of the inference_events table, in commit order
    now,                \* the wall clock, time.time()
    pc,                 \* "idle", or "closing" inside the loop of close()
    accepted,           \* events appended to the buffer so far
    overflowed,         \* ids of the events the full deque discarded
    ambiguous,          \* attempts so far that committed and reported an error
    popped,             \* events flush() has taken out of the buffer so far
    last                \* what the last call did

\* The rest of the database, the open write transaction of the client, and
\* the Metrics Job (src/ml_observability_mvp/jobs/compute_daily_metrics.py).
VARIABLES
    label_events,       \* rows of the label_events table
    metrics_daily,      \* rows of the metrics_daily table
    txn,                \* the write transaction of flush(), while it is open
    job,                \* the local state of each running Metrics Job
    calc                \* the last call of a pure function of the job

vars == <<enabled, dsn, batch_size, flush_seconds, buffer, last_flush_time,
          dropped_events, flush_failures, insert_success, inference_events,
          now, pc, accepted, overflowed, ambiguous, popped, last,
          label_events, metrics_daily, txn, job, calc>>

jobvars == <<label_events, metrics_daily, txn, job, calc>>

\* The Metrics Jobs that may run at the same time.
MaxJobs == 2
Jobs == 1..MaxJobs

\* No transaction is open and no batch was handed to storage yet; `rows`
\* are the rows inserted and not yet committed, `handed` the batches (ids)
\* flush() has tried to write so far.
NoTxn == [open |-> FALSE, batch |-> <<>>, rows |-> <<>>, attempt |-> 0,
          handed |-> {}]

\* A job that has not run: `seen` is the result of its query on
\* inference_events next to a writing client, `at` the number of
\* uncommitted rows in flight when the query ran; `models` are the models
\* the loop of run_job has still to process, `metrics` the tuples computed
\* for the first of them, n_current, n_baseline and n_perf the lengths of
\* the three query results they were computed from, txn_start the NOW() of
\* the open transaction, and `replaced` tells that the job has overwritten
\* a row that held another value; drift_features is DRIFT_Features, the
\* list the process made of MODEL_DRIFT_FEATURES when it was loaded, and
\* `baseline` the rows of df_baseline, as a bag.
IdleJob ==
    [pc |-> "idle", seen |-> <<>>, at |-> 0,
     runs |-> 0, target_day |-> 0, models |-> <<>>, metrics |-> <<>>,
     n_current |-> 0, n_baseline |-> 0, n_perf |-> 0,
     in_txn |-> FALSE, txn_start |-> 0, replaced |-> FALSE,
     drift_features |-> <<>>, baseline |-> <<>>]
NoJobs == [j \in Jobs |-> IdleJob]
NoCalc == [fn |-> "none"]

JobsIdle ==
    /\ label_events = EmptyBag
    /\ metrics_daily = {}
    /\ txn = NoTxn
    /\ job = NoJobs
    /\ calc = NoCalc

config == <<enabled, dsn, batch_size, flush_seconds>>
counters == <<dropped_events, flush_failures, insert_success>>

\* ------------------------------------------------------------------------
\* Construction: DriftWatchClient.__init__
\* ------------------------------------------------------------------------
\* Values of the environment variables ("unset": the variable is not set).
EnabledEnv == {"unset", "true", "TRUE", "false"}
DsnEnv == {"unset", "", "postgresql://db"}
BatchEnv == {"unset", "abc", "0", "-1", "1", "2"}
FlushEnv == {"unset", "abc", "1"}

\* str.lower()
Lower(s) == CASE s = "TRUE" -> "true" [] s = "True" -> "true" [] OTHER -> s

\* int(s) raises ValueError unless s is an integer literal
IsIntLiteral(s) == s \in {"-1", "0", "1", "2", "3", "4", "5"}
IntOf(s) ==
    CASE s = "-1" -> -1 [] s = "0" -> 0 [] s = "1" -> 1 [] s = "2" -> 2
      [] s = "3" -> 3 [] s = "4" -> 4 [] s = "5" -> 5

\* self.enabled after __init__ (lines 24 and 44-46)
EnabledOf(flag, d) ==
    LET fromEnv == Lower(IF flag = "unset" THEN "true" ELSE flag) = "true"
    IN  IF fromEnv /\ d \in {"unset", ""} THEN FALSE ELSE fromEnv

\* the try/except of lines 28-33: both settings fall back to the defaults
\* when either conversion raises
ConfigOf(b, f) ==
    LET bOk == b = "unset" \/ IsIntLiteral(b)
        fOk == f = "unset" \/ IsIntLiteral(f)
    IN  IF bOk /\ fOk
        THEN [batch_size |-> IF b = "unset" THEN DEFAULT_BATCH_SIZE ELSE IntOf(b),
              flush_seconds |-> IF f = "unset" THEN DEFAULT_FLUSH_SECONDS ELSE IntOf(f)]
        ELSE [batch_size |-> DEFAULT_BATCH_SIZE,
              flush_seconds |-> DEFAULT_FLUSH_SECONDS]

\* No call has been made yet (or the clock moved since the last one).
NoCall ==
    [op |-> "none", raised |-> FALSE, flushed |-> FALSE, result |-> "none",
     attempts |-> 0, commits |-> 0, batch |-> <<>>, slept |-> <<>>, tried |-> <<>>,
     arg |-> PyNone, ret |-> PyNone]

Init ==
    \E flag \in EnabledEnv, d \in DsnEnv, b \in BatchEnv, f \in FlushEnv :
        /\ enabled = EnabledOf(flag, d)
        /\ dsn = (IF d = "unset" THEN "None" ELSE d)
        /\ batch_size = ConfigOf(b, f).batch_size
        /\ flush_seconds = ConfigOf(b, f).flush_seconds
        /\ buffer = <<>>
        /\ now = 0
        /\ last_flush_time = 0
        /\ dropped_events = 0
        /\ flush_failures = 0
        /\ insert_success = 0
        /\ inference_events = <<>>
        /\ pc = "idle"
        /\ accepted = 0
        /\ overflowed = {}
        /\ ambiguous = 0
        /\ popped = 0
        /\ last = [NoCall EXCEPT !.op = "__init__", !.arg = Scalar("str", flag)]
        /\ JobsIdle

\* ------------------------------------------------------------------------
\* The buffer: collections.deque(maxlen=MAX_BUFFER)
\* ------------------------------------------------------------------------
\* deque.append on a deque without the maxlen bound
DequeAppendUnbounded(q, e) == Append(q, e)

\* deque.append: a full deque discards its leftmost element
DequeAppend(q, e) ==
    IF Len(q) = MAX_BUFFER THEN Append(Tail(q), e) ELSE Append(q, e)

\* the dropped-events test of line 95 taken one element late
DroppedAfterLate(q, n) == IF Len(q) > MAX_BUFFER THEN n + 1 ELSE n

\* lines 95-96: the drop is counted when the deque is full before the append
DroppedAfter(q, n) == IF Len(q) = MAX_BUFFER THEN n + 1 ELSE n

\* ------------------------------------------------------------------------
\* flush()
\* ------------------------------------------------------------------------
\* Outcome of one write attempt (lines 122-145):
\*   "ok"                     the insert committed and no exception was raised
\*   "db_error"               psycopg2.Error or OSError, nothing committed
\*   "db_error_after_commit"  the commit took effect, but the attempt raised
\*                            psycopg2.Error or OSError (connection lost
\*                            before the acknowledgement)
\*   "other_error"            an exception of another class, nothing committed
WriteOutcomes == {"ok", "db_error", "db_error_after_commit", "other_error"}
Caught == {"db_error", "db_error_after_commit"}
Committing == {"ok", "db_error_after_commit"}

\* The run of n attempts whose failures before the n-th are caught, those
\* at the positions amb after their commit, and whose n-th attempt ends as
\* `final`.  The attempts the loop never makes are written "ok".
Run(n, amb, final) ==
    [i \in 1..MAX_RETRIES |->
        IF i < n THEN (IF i \in amb THEN "db_error_after_commit" ELSE "db_error")
        ELSE IF i = n THEN final ELSE "ok"]

\* The outcomes of the attempts one flush may make: the loop stops at the
\* first outcome that is not a caught failure, or after MAX_RETRIES.
OutcomeRuns ==
    { Run(x[1], x[2], x[3]) :
        x \in { y \in (1..MAX_RETRIES) \X (SUBSET (1..MAX_RETRIES)) \X WriteOutcomes :
                  /\ y[2] \subseteq 1..(y[1] - 1)
                  /\ Cardinality(y[2]) <= MaxAmbiguous
                  /\ y[1] < MAX_RETRIES => y[3] \notin Caught } }

NoAttempt == [i \in 1..MAX_RETRIES |-> "ok"]

\* lines 109-112: pop from the left while the batch is short
RECURSIVE PopLoop(_, _, _)
PopLoop(buf, batch, size) ==
    IF buf # <<>> /\ Len(batch) < size
    THEN PopLoop(Tail(buf), Append(batch, Head(buf)), size)
    ELSE [buffer |-> buf, batch |-> batch]

\* line 148 counting the events of the batch
FailuresAfterPerEvent(n, batch) == n + Len(batch)

\* line 148: one failure per flush that exhausted its attempts
FailuresAfter(n, batch) == n + 1

\* line 137 counting the write, not its events
SuccessAfterOne(n, batch) == n + 1

\* line 137
SuccessAfter(n, batch) == n + Len(batch)

\* executemany + commit (lines 133-134): the rows of the batch, in order
Commit(rows, batch) == rows \o batch

\* the wait staying what it was after a failed attempt
BackoffConstant(wait) == wait

\* line 145: `wait *= 2`
Backoff(wait) == wait * 2

\* line 118: `wait = 0.5`, in units of 0.5 s
InitialWait == 1

\* lines 121-145: `for attempt in range(MAX_RETRIES)`.  r carries the batch
\* and the state the loop reads and writes; `wait` is in units of 0.5 s.
RECURSIVE RetryLoop(_, _, _, _)
RetryLoop(attempt, wait, r, outs) ==
    IF attempt >= MAX_RETRIES THEN r
    ELSE
      LET o == outs[attempt + 1]
          r1 == [r EXCEPT
                   !.inference_events = IF o \in Committing THEN Commit(@, r.batch) ELSE @,
                   !.commits = IF o \in Committing THEN @ + 1 ELSE @,
                   !.attempts = @ + 1,
                   !.tried = Append(@, IF o = "ok" THEN "ok" ELSE "failed")]
      IN  CASE o = "ok" ->
                 [r1 EXCEPT !.success = TRUE,
                            !.insert_success = SuccessAfter(@, r.batch),
                            !.now = r.now + r.stall,
                            !.last_flush_time = r.now + r.stall]
            [] o = "other_error" -> [r1 EXCEPT !.raised = TRUE]
            [] OTHER ->
                 IF attempt < MAX_RETRIES - 1
                 THEN RetryLoop(attempt + 1, Backoff(wait),
                                [r1 EXCEPT !.slept = Append(@, wait)], outs)
                 ELSE RetryLoop(attempt + 1, wait, r1, outs)

\* The state flush() reads and writes, as a record.  `stall` is how far the
\* clock reading of line 138 is ahead of the reading at the call.
ClientState ==
    [buffer |-> buffer, last_flush_time |-> last_flush_time,
     dropped_events |-> dropped_events, flush_failures |-> flush_failures,
     insert_success |-> insert_success, inference_events |-> inference_events,
     now |-> now, stall |-> 0,
     success |-> FALSE, raised |-> FALSE, attempts |-> 0, commits |-> 0,
     batch |-> <<>>, slept |-> <<>>, tried |-> <<>>]

\* the `not self.enabled` test never holding a call back
GuardOffNever == FALSE

\* `not self.enabled` holds the call back (lines 74, 106, 154)
GuardOff == ~enabled

\* flush() putting the batch back at the head of the buffer when its
\* attempts are exhausted
FlushCallRequeue(c, outs) ==
    IF GuardOff \/ c.buffer = <<>> THEN c
    ELSE
      LET taken == PopLoop(c.buffer, <<>>, batch_size)
      IN  IF taken.batch = <<>> THEN c
          ELSE
            LET r == RetryLoop(0, InitialWait, [c EXCEPT !.buffer = taken.buffer,
                                               !.batch = taken.batch], outs)
            IN  IF ~r.raised /\ ~r.success
                THEN [r EXCEPT !.flush_failures = FailuresAfter(@, r.batch),
                               !.buffer = r.batch \o @]
                ELSE r

\* flush() (lines 105-150) from state c, the write attempts having the
\* outcomes outs.
FlushCall(c, outs) ==
    IF GuardOff \/ c.buffer = <<>> THEN c
    ELSE
      LET taken == PopLoop(c.buffer, <<>>, batch_size)
      IN  IF taken.batch = <<>> THEN c
          ELSE
            LET r == RetryLoop(0, InitialWait, [c EXCEPT !.buffer = taken.buffer,
                                               !.batch = taken.batch], outs)
            IN  IF ~r.raised /\ ~r.success
                THEN [r EXCEPT !.flush_failures = FailuresAfter(@, r.batch)]
                ELSE r

\* The ids of a sequence of events.
Ids(events) == [i \in DOMAIN events |-> events[i].id]

\* What a call `op` that ran flush() and reached r leaves in `last`.
CallRecord(op, r, invoked) ==
    [NoCall EXCEPT !.op = op, !.raised = r.raised, !.flushed = invoked,
                   !.result = IF r.raised THEN "raised"
                              ELSE IF r.success THEN "ok"
                              ELSE IF r.attempts > 0 THEN "exhausted"
                              ELSE "none",
                   !.attempts = r.attempts, !.commits = r.commits,
                   !.batch = Ids(r.batch), !.slept = r.slept,
                   !.tried = r.tried]

\* What the environment decides about one flush(): the outcomes of its
\* attempts and, when one succeeds, the stall of the clock.
Environments ==
    { e \in [outs : OutcomeRuns, stall : 0..MaxStall] :
        e.stall > 0 => \E i \in 1..MAX_RETRIES : e.outs[i] = "ok" /\ e.outs # NoAttempt }

Quiet == [outs |-> NoAttempt, stall |-> 0]

\* flush() called in state c gets to its retry loop.
Writes(c) ==
    ~GuardOff /\ c.buffer # <<>> /\ PopLoop(c.buffer, <<>>, batch_size).batch # <<>>

\* The environments to consider for a flush() called in state c.
EnvironmentsOf(c) == IF Writes(c) THEN Environments ELSE {Quiet}

Ambiguous(outs) == Cardinality({i \in DOMAIN outs : outs[i] = "db_error_after_commit"})

\* The assignments shared by every call that ran flush() and reached r.
Becomes(r, outs) ==
    /\ buffer' = r.buffer
    /\ last_flush_time' = r.last_flush_time
    /\ flush_failures' = r.flush_failures
    /\ insert_success' = r.insert_success
    /\ inference_events' = r.inference_events
    /\ now' = r.now
    /\ ambiguous' = ambiguous + Ambiguous(outs)
    /\ popped' = popped + Len(r.batch)
    /\ r.now <= MaxTime
    /\ ambiguous + Ambiguous(outs) <= MaxAmbiguous

Flush ==
    /\ UNCHANGED jobvars
    /\ pc = "idle"
    /\ \E e \in EnvironmentsOf(ClientState) :
         \E r \in {FlushCall([ClientState EXCEPT !.stall = e.stall], e.outs)} :
             /\ Becomes(r, e.outs)
             /\ last' = CallRecord("flush", r, TRUE)
    /\ UNCHANGED <<config, dropped_events, pc, accepted, overflowed>>


\* ------------------------------------------------------------------------
\* log_inference()
\* ------------------------------------------------------------------------
\* Arguments of log_inference: features_json, segment_json, y_pred_num and
\* request_id.  The features of the smoke test
\* (smoke_test_driftwatch.py:36-45), a NaN at the top level of the map,
\* together with non-finite values inside containers that are values of the
\* maps; request_id is left to its default, None, as the prediction loop
\* does (main.py:126-136).
MapArgs ==
    [features_json |-> PyDict(<<PyFloat("0.42"), PyNone, PyFloat("nan"),
                                PyList(<<PyFloat("nan")>>)>>),
     segment_json |-> PyDict(<<Scalar("str", "TEST"), PyFloat("inf"),
                               PyDict(<<PyFloat("-inf")>>)>>),
     y_pred_num |-> PyFloat("-inf"),
     request_id |-> PyNone]

\* features_json is None: `.items()` raises AttributeError.
NoMapArgs ==
    [features_json |-> PyNone,
     segment_json |-> PyDict(<<>>),
     y_pred_num |-> PyNone,
     request_id |-> PyNone]

Args == {MapArgs, NoMapArgs}

\* The same call with the request identifiers a caller may pass: none, as
\* main.py does, or the f"smoke-{i}" of smoke_test_driftwatch.py:46.
RequestIdArgs ==
    {[MapArgs EXCEPT !.request_id = r] :
        r \in {PyNone, Scalar("str", "smoke-0"), Scalar("str", "smoke-1")}}

\* lines 78-92: the event tuple built from the arguments.  `id` numbers the
\* events in the order of the calls and stands for the timestamp; the
\* request identifier is the argument as it came (line 85).
EventOf(a, id) ==
    [id |-> id,
     request_id |-> a.request_id,
     features_json |-> SanitizeMap(a.features_json),
     y_pred_num |-> _sanitize(a.y_pred_num),
     segment_json |-> SanitizeMap(a.segment_json)]

\* the flush test of lines 101-102 with strict comparisons
FlushDueStrict(n, elapsed) ==
    (n > batch_size) \/ (elapsed > flush_seconds)

\* lines 101-102: n events buffered, `elapsed` since self.last_flush_time
FlushDue(n, elapsed) ==
    (n >= batch_size) \/ (elapsed >= flush_seconds)

\* log_inference (lines 61-103) called with the arguments a
LogInferenceCall(a) ==
    /\ UNCHANGED jobvars
    /\ pc = "idle"
    /\ IF GuardOff
         THEN /\ last' = [NoCall EXCEPT !.op = "log_inference"]
              /\ UNCHANGED <<config, buffer, last_flush_time, counters,
                             inference_events, now, pc, accepted, overflowed,
                             ambiguous, popped>>
         ELSE IF a.features_json.type # "dict" \/ a.segment_json.type # "dict"
         THEN /\ last' = [NoCall EXCEPT !.op = "log_inference", !.raised = TRUE,
                                        !.result = "raised",
                                        !.arg = a.features_json]
              /\ UNCHANGED <<config, buffer, last_flush_time, counters,
                             inference_events, now, pc, accepted, overflowed,
                             ambiguous, popped>>
         ELSE
           LET event == EventOf(a, accepted + 1)
               appended == DequeAppend(buffer, event)
               c == [ClientState EXCEPT
                       !.buffer = appended,
                       !.dropped_events = DroppedAfter(buffer, dropped_events)]
               due == FlushDue(Len(appended), now - last_flush_time)
           IN  \E e \in (IF due THEN EnvironmentsOf(c) ELSE {Quiet}) :
               \E r \in {IF due THEN FlushCall([c EXCEPT !.stall = e.stall], e.outs)
                                ELSE c} :
               /\ Becomes(r, e.outs)
               /\ dropped_events' = r.dropped_events
               /\ accepted' = accepted + 1
               /\ overflowed' = IF Len(Append(buffer, event)) > Len(appended)
                                THEN overflowed \cup {Head(buffer).id}
                                ELSE overflowed
               /\ last' = CallRecord("log_inference", r, due)
               /\ UNCHANGED <<config, pc>>

LogInference ==
    /\ accepted < MaxEvents
    /\ \E a \in Args : LogInferenceCall(a)

\* log_inference called with and without a request identifier
LogRequest ==
    /\ accepted < MaxEvents
    /\ \E a \in RequestIdArgs : LogInferenceCall(a)

\* ------------------------------------------------------------------------
\* close(): `while self.buffer: self.flush()`, one flush() per step
\* ------------------------------------------------------------------------
CloseBegin ==
    /\ UNCHANGED jobvars
    /\ pc = "idle"
    /\ last' = [NoCall EXCEPT !.op = "close"]
    /\ pc' = IF GuardOff THEN "idle" ELSE "closing"
    /\ UNCHANGED <<config, buffer, last_flush_time, counters, inference_events,
                   now, accepted, overflowed, ambiguous, popped>>

CloseFlush ==
    /\ UNCHANGED jobvars
    /\ pc = "closing"
    /\ buffer # <<>>
    /\ \E e \in EnvironmentsOf(ClientState) :
         \E r \in {FlushCall([ClientState EXCEPT !.stall = e.stall], e.outs)} :
             /\ Becomes(r, e.outs)
             /\ last' = CallRecord("close", r, TRUE)
             /\ pc' = IF r.raised THEN "idle" ELSE "closing"
    /\ UNCHANGED <<config, dropped_events, accepted, overflowed>>

CloseReturn ==
    /\ UNCHANGED jobvars
    /\ pc = "closing"
    /\ buffer = <<>>
    /\ pc' = "idle"
    /\ last' = [NoCall EXCEPT !.op = "close", !.result = "returned"]
    /\ UNCHANGED <<config, buffer, last_flush_time, counters, inference_events,
                   now, accepted, overflowed, ambiguous, popped>>

\* ------------------------------------------------------------------------
\* The clock moves between calls.
\* ------------------------------------------------------------------------
Tick ==
    /\ UNCHANGED jobvars
    /\ pc = "idle"
    /\ now < MaxTime
    /\ now' = now + 1
    /\ last' = NoCall
    /\ UNCHANGED <<config, buffer, last_flush_time, counters, inference_events,
                   pc, accepted, overflowed, ambiguous, popped>>

\* ------------------------------------------------------------------------
\* A direct call of _sanitize(val)
\* ------------------------------------------------------------------------
SanitizeInputs ==
    {PyNone, PyFloat("nan"), PyFloat("inf"), PyFloat("-inf"), PyFloat("0.42"),
     PyFloat("-1.5"), Scalar("int", "7"), Scalar("str", "nan"),
     Scalar("str", "TEST"), Scalar("bool", "True"),
     PyList(<<PyFloat("nan")>>)}

SanitizeCall ==
    /\ UNCHANGED jobvars
    /\ pc = "idle"
    /\ \E val \in SanitizeInputs :
         last' = [NoCall EXCEPT !.op = "_sanitize", !.arg = val,
                                !.ret = _sanitize(val)]
    /\ UNCHANGED <<config, buffer, last_flush_time, counters, inference_events,
                   now, pc, accepted, overflowed, ambiguous, popped>>

Next == LogInference \/ Flush \/ CloseBegin \/ CloseFlush \/ CloseReturn \/ Tick

Spec == Init /\ [][Next]_vars

\* close() keeps running once called: the thread is never descheduled for good.
FairSpec == Spec /\ WF_vars(CloseFlush) /\ WF_vars(CloseReturn)


\* The client with its default settings, called by a workload that also
\* calls the sanitizer directly.
InitSan ==
    /\ Init
    /\ enabled
    /\ batch_size = DEFAULT_BATCH_SIZE
    /\ flush_seconds = DEFAULT_FLUSH_SECONDS

NextSan == SanitizeCall \/ LogInference \/ Tick

SanSpec == InitSan /\ [][NextSan]_vars

\* An enabled client and callers that differ in the request identifier
\* they pass.
InitRequest == Init /\ enabled

NextRequest == LogRequest \/ Tick

RequestSpec == InitRequest /\ [][NextRequest]_vars

\* ------------------------------------------------------------------------
\* flush() at the grain of its database statements, next to a Metrics Job
\* that queries inference_events.  psycopg2 opens a transaction at the
\* first statement of a connection; executemany (line 133) inserts the rows
\* of the batch one by one inside it, conn.commit() (line 134) makes them
\* visible together, and leaving `with psycopg2.connect(...)` by an
\* exception rolls the transaction back.
\* ------------------------------------------------------------------------
\* two full batches of the largest batch size
MaxAtomEvents == 2 * MAX_BUFFER

\* lines 109-118 after the enqueue: the batch is popped and the first
\* attempt opens its transaction
BeginTxn(batch) ==
    [open |-> TRUE, batch |-> batch, rows |-> <<>>, attempt |-> 0,
     handed |-> txn.handed \cup {Ids(batch)}]

EndTxn == [NoTxn EXCEPT !.handed = txn.handed]

\* log_inference (lines 74-103) up to the first statement of flush()
AtomLog ==
    /\ pc = "idle"
    /\ ~GuardOff
    /\ accepted < MaxAtomEvents
    /\ LET event == EventOf(MapArgs, accepted + 1)
           appended == DequeAppend(buffer, event)
           due == FlushDue(Len(appended), now - last_flush_time)
           taken == PopLoop(appended, <<>>, batch_size)
       IN  /\ accepted' = accepted + 1
           /\ dropped_events' = DroppedAfter(buffer, dropped_events)
           /\ overflowed' = IF Len(Append(buffer, event)) > Len(appended)
                            THEN overflowed \cup {Head(buffer).id}
                            ELSE overflowed
           /\ IF due /\ taken.batch # <<>>
              THEN /\ buffer' = taken.buffer
                   /\ txn' = BeginTxn(taken.batch)
                   /\ popped' = popped + Len(taken.batch)
                   /\ pc' = "writing"
              ELSE /\ buffer' = appended
                   /\ UNCHANGED <<txn, popped, pc>>
    /\ last' = [NoCall EXCEPT !.op = "log_inference"]
    /\ UNCHANGED <<config, last_flush_time, flush_failures, insert_success,
                   inference_events, now, ambiguous,
                   label_events, metrics_daily, job, calc>>

\* line 133: executemany inserts the next row of the batch
AtomInsert ==
    /\ pc = "writing"
    /\ Len(txn.rows) < Len(txn.batch)
    /\ txn' = [txn EXCEPT !.rows = Append(@, txn.batch[Len(@) + 1])]
    /\ UNCHANGED <<config, buffer, last_flush_time, counters, inference_events,
                   now, pc, accepted, overflowed, ambiguous, popped, last,
                   label_events, metrics_daily, job, calc>>

\* lines 141-148: a caught failure ends the attempt; the next attempt opens
\* a new transaction, the last one counts the flush as failed
AfterFailure ==
    IF txn.attempt < MAX_RETRIES - 1
    THEN /\ txn' = [txn EXCEPT !.rows = <<>>, !.attempt = @ + 1]
         /\ UNCHANGED <<flush_failures, pc>>
    ELSE /\ txn' = EndTxn
         /\ flush_failures' = FailuresAfter(flush_failures, txn.batch)
         /\ pc' = "idle"

\* lines 134-139: conn.commit().  The commit either is acknowledged, or
\* takes effect while the call raises psycopg2.Error.
AtomCommit ==
    /\ pc = "writing"
    /\ Len(txn.rows) = Len(txn.batch)
    /\ inference_events' = Commit(inference_events, txn.rows)
    /\ \E acknowledged \in BOOLEAN :
         IF acknowledged
         THEN /\ insert_success' = SuccessAfter(insert_success, txn.batch)
              /\ last_flush_time' = now
              /\ txn' = EndTxn
              /\ pc' = "idle"
              /\ UNCHANGED <<flush_failures, ambiguous>>
         ELSE /\ ambiguous < MaxAmbiguous
              /\ ambiguous' = ambiguous + 1
              /\ AfterFailure
              /\ UNCHANGED <<insert_success, last_flush_time>>
    /\ UNCHANGED <<config, buffer, dropped_events, now, accepted, overflowed,
                   popped, last, label_events, metrics_daily, job, calc>>

\* lines 122-145: the attempt raises before its commit, at the connect, at
\* SET LOCAL or between two rows of executemany; the transaction is rolled
\* back.  An exception of another class leaves flush().
AtomFail ==
    /\ pc = "writing"
    /\ \E caught \in BOOLEAN :
         IF caught
         THEN AfterFailure
         ELSE /\ txn' = EndTxn
              /\ pc' = "idle"
              /\ UNCHANGED flush_failures
    /\ UNCHANGED <<config, buffer, last_flush_time, dropped_events,
                   insert_success, inference_events, now, accepted, overflowed,
                   ambiguous, popped, last, label_events, metrics_daily, job,
                   calc>>

\* a query that also returns the rows other transactions have not committed
VisibleDirty(rows, t) == rows \o t.rows

\* compute_daily_metrics.py lines 86-91: a SELECT of the job's connection
\* (READ COMMITTED, the default) returns committed rows only
Visible(rows, t) == rows

\* compute_daily_metrics.py lines 86-91: the job that runs next to the
\* client reads the events
AtomJobRead ==
    /\ \E j \in {1} :
         job' = [job EXCEPT ![j] = [@ EXCEPT !.seen = Visible(inference_events, txn),
                                            !.at = Len(txn.rows)]]
    /\ UNCHANGED <<config, buffer, last_flush_time, counters, inference_events,
                   now, pc, accepted, overflowed, ambiguous, popped, last,
                   label_events, metrics_daily, txn, calc>>

\* the client enabled with a batch size the buffer can reach
InitAtom == Init /\ enabled /\ batch_size \in 1..MAX_BUFFER

NextAtom == AtomLog \/ AtomInsert \/ AtomCommit \/ AtomFail \/ AtomJobRead

AtomSpec == InitAtom /\ [][NextAtom]_vars

\* ------------------------------------------------------------------------
\* compute_psi (compute_daily_metrics.py lines 18-50)
\* ------------------------------------------------------------------------
\* Samples are sequences of integers; a quantile edge of a sample for
\* `buckets` buckets is kept exactly, as the integer edge * buckets.
MaxSample == 3
MaxValue == 2
MaxBuckets == 3

\* line 18: `buckets=10`
DefaultBuckets == 10

Samples == UNION {[1..n -> 0..MaxValue] : n \in 0..MaxSample}
BucketCounts == (1..MaxBuckets) \cup {DefaultBuckets}

\* the sample in ascending order, as quantile() reads it
RECURSIVE InsertSorted(_, _)
InsertSorted(s, x) ==
    IF s = <<>> THEN <<x>>
    ELSE IF x <= Head(s) THEN <<x>> \o s
    ELSE <<Head(s)>> \o InsertSorted(Tail(s), x)

RECURSIVE SortSample(_)
SortSample(s) ==
    IF s = <<>> THEN <<>> ELSE InsertSorted(SortSample(Tail(s)), Head(s))

\* Series.quantile(k / buckets) with linear interpolation, times `buckets`:
\* the position (n-1)*k/buckets lies between two order statistics
Quantile(sorted, k, buckets) ==
    LET pos == (Len(sorted) - 1) * k
        lo == (pos \div buckets) + 1
        part == pos % buckets
    IN  IF part = 0 THEN sorted[lo] * buckets
        ELSE sorted[lo] * buckets + part * (sorted[lo + 1] - sorted[lo])

\* line 29: the buckets+1 quantile edges of qcut
QuantileEdges(sample, buckets) ==
    LET sorted == SortSample(sample)
    IN  [k \in 1..(buckets + 1) |-> Quantile(sorted, k - 1, buckets)]

\* an ascending sequence without its repeated values
RECURSIVE Unique(_)
Unique(s) ==
    IF Len(s) <= 1 THEN s
    ELSE IF s[1] = s[2] THEN Unique(Tail(s))
    ELSE <<Head(s)>> \o Unique(Tail(s))

\* line 29, duplicates='drop': repeated edges are dropped, unless there are
\* just two edges
Qcut(sample, buckets) ==
    LET edges == QuantileEdges(sample, buckets)
    IN  IF Len(Unique(edges)) < Len(edges) /\ Len(edges) # 2
        THEN Unique(edges) ELSE edges

Edge(x) == [kind |-> "num", v |-> x]
NegInf == [kind |-> "-inf", v |-> 0]
PosInf == [kind |-> "inf", v |-> 0]

\* lines 35-36: bins[0] = -inf, then bins[-1] = inf
Clamp(bins) ==
    LET edges == [i \in DOMAIN bins |-> Edge(bins[i])]
    IN  [[edges EXCEPT ![1] = NegInf] EXCEPT ![Len(bins)] = PosInf]

\* x lies in the right-closed interval (lo, hi] of pd.cut
InBin(x, lo, hi) ==
    /\ lo.kind # "inf"
    /\ (lo.kind = "num" => lo.v < x)
    /\ hi.kind # "-inf"
    /\ (hi.kind = "num" => x <= hi.v)

\* lines 39-40: pd.cut(...).value_counts(sort=False), one count per interval
BinCounts(sample, bins, buckets) ==
    [i \in 1..(Len(bins) - 1) |->
        Cardinality({j \in DOMAIN sample :
                        InBin(sample[j] * buckets, bins[i], bins[i + 1])})]

\* A proportion is a fraction <<numerator, denominator>>.
\* lines 43-44: count / len, with 0 replaced by 0.0001
Percent(count, n) == IF count = 0 THEN <<1, 10000>> ELSE <<count, n>>

\* line 43
ExpectedPercents(counts, n) == [i \in DOMAIN counts |-> Percent(counts[i], n)]

\* line 44 without the replacement of 0
ActualPercentsNoFloor(counts, n) == [i \in DOMAIN counts |-> <<counts[i], n>>]

\* line 44
ActualPercents(counts, n) == [i \in DOMAIN counts |-> Percent(counts[i], n)]

\* line 47: (a - e) * ln(a / e) is 0 when a = e and positive otherwise
TermIsZero(a, e) == a[1] * e[2] = e[1] * a[2]

\* line 24: `return 0.0`
EmptyResultNaN == "nan"

EmptyResult == "0.0"

\* lines 18-50.  The value is "0.0" or "positive"; the counts of the bins
\* are kept next to it.
compute_psi(expected, actual, buckets) ==
    IF Len(expected) = 0 \/ Len(actual) = 0
    THEN [value |-> EmptyResult, expected_counts |-> <<>>, actual_counts |-> <<>>]
    ELSE
      LET bins == Clamp(Qcut(expected, buckets))
          expected_counts == BinCounts(expected, bins, buckets)
          actual_counts == BinCounts(actual, bins, buckets)
          expected_percents == ExpectedPercents(expected_counts, Len(expected))
          actual_percents == ActualPercents(actual_counts, Len(actual))
      IN  [value |-> IF \A i \in DOMAIN expected_percents :
                          TermIsZero(actual_percents[i], expected_percents[i])
                     THEN "0.0" ELSE "positive",
           expected_counts |-> expected_counts,
           actual_counts |-> actual_counts]

\* one call of compute_psi
PsiCall ==
    /\ calc = NoCalc
    /\ \E expected \in Samples, actual \in Samples, buckets \in BucketCounts :
         calc' = [fn |-> "compute_psi", expected |-> expected, actual |-> actual,
                  buckets |-> buckets, ret |-> compute_psi(expected, actual, buckets)]
    /\ UNCHANGED <<config, buffer, last_flush_time, counters, inference_events,
                   now, pc, accepted, overflowed, ambiguous, popped, last,
                   label_events, metrics_daily, txn, job>>

NextPsi == PsiCall

PsiSpec == InitSan /\ [][NextPsi]_vars

\* ------------------------------------------------------------------------
\* The F1 score of process_model_metrics (lines 179-192)
\* ------------------------------------------------------------------------
\* Predictions and truths are numbers in tenths; a fraction is
\* <<numerator, denominator>>.
MaxRows == 4
PredValues == {1, 4, 5, 6, 9}
TruthValues == {0, 10, 20}
PerfRows == UNION {[1..n -> [y_pred_num : PredValues, y_true_num : TruthValues]] :
                     n \in 0..MaxRows}

\* line 181: (y_pred_num >= 0.5).astype(int)
PredBinary(y_pred_num) == IF y_pred_num >= 5 THEN 1 ELSE 0

\* line 182: y_true_num.astype(int) drops the fraction
TrueBinary(y_true_num) == y_true_num \div 10

\* lines 184-186: (y_pred_binary == p) & (y_true_binary == t), summed
CountRows(rows, p, t) ==
    Cardinality({i \in DOMAIN rows :
                    /\ PredBinary(rows[i].y_pred_num) = p
                    /\ TrueBinary(rows[i].y_true_num) = t})

\* lines 188-189: num / den if den > 0 else 0
Ratio(num, den) == IF den > 0 THEN <<num, den>> ELSE <<0, 1>>

\* line 190: 2 * (precision * recall) / (precision + recall), or 0
F1Of(precision, recall) ==
    LET sum == precision[1] * recall[2] + recall[1] * precision[2]
    IN  IF sum > 0 THEN <<2 * precision[1] * recall[1], sum>> ELSE <<0, 1>>

\* lines 179-192
F1Score(rows) ==
    LET tp == CountRows(rows, 1, 1)
        fp == CountRows(rows, 1, 0)
        fn == CountRows(rows, 0, 1)
        precision == Ratio(tp, tp + fp)
        recall == Ratio(tp, tp + fn)
    IN  [tp |-> tp, fp |-> fp, fn |-> fn, precision |-> precision,
         recall |-> recall, f1 |-> F1Of(precision, recall)]

\* one computation of the F1 score
F1Call ==
    /\ calc = NoCalc
    /\ \E rows \in PerfRows :
         calc' = [fn |-> "f1", rows |-> rows, ret |-> F1Score(rows)]
    /\ UNCHANGED <<config, buffer, last_flush_time, counters, inference_events,
                   now, pc, accepted, overflowed, ambiguous, popped, last,
                   label_events, metrics_daily, txn, job>>

NextF1 == F1Call

F1Spec == InitSan /\ [][NextF1]_vars

\* ------------------------------------------------------------------------
\* The Metrics Job (compute_daily_metrics.py lines 52-209)
\* ------------------------------------------------------------------------
\* In this part a table is a bag of rows, and a metric value is a fraction
\* <<numerator, denominator>>; predictions and truths are in tenths.
\* MinSamples stands for the 200 rows of lines 134 and 172, BaselineLimit
\* for the 100000 rows of line 116.
MinSamples == 2
BaselineLimit == 2
MaxDbEvents == MinSamples + 1
MaxLabels == MinSamples
MaxRuns == 1

\* line 109: timedelta(days=14)
BaselineDays == 14

Days == {0, BaselineDays}
Models == {<<"m1", "v1">>, <<"m2", "v1">>}
RequestIds == {"r1", "r2"}

\* the requests whose truth becomes known
LabelledIds == {"r1"}

\* a latency_ms that is NULL
NoLatency == -1

\* A value of a feature map: a number or a string.
Number(x) == [kind |-> "num", v |-> x]
Text == [kind |-> "str", v |-> 0]

\* The workload: model m1 is a regression, m2 a classification; requests
\* r1 take 10 ms, requests r2 take 30 ms on m2 and are logged without
\* latency on m1; the feature x is 0 on day 0 and 1 later.
JobEvent(day, model, rid) ==
    [day |-> day, model_id |-> model[1], model_version |-> model[2],
     request_id |-> rid,
     pred_type |-> IF model[1] = "m1" THEN "regression" ELSE "classification",
     latency_ms |-> IF rid = "r1" THEN 10
                    ELSE IF model[1] = "m2" THEN 30 ELSE NoLatency,
     features_json |-> [x |-> Number(IF day = 0 THEN 0 ELSE 1)],
     y_pred_num |-> 5]

\* Feature maps that differ in the features they hold and in the type of
\* the feature s.
FeatureMaps ==
    { [x |-> Number(0)],
      [x |-> Number(1), y |-> Number(1)],
      [x |-> Number(1), s |-> Text],
      [x |-> Number(0), s |-> Number(1)] }

\* an event of model m1 whose features are the map f
FeatureEvent(day, f) ==
    [JobEvent(day, <<"m1", "v1">>, "r1") EXCEPT !.features_json = f]

JobLabel(model_id, rid) ==
    [model_id |-> model_id, request_id |-> rid, y_true_num |-> 10]

\* the rows of a table that a WHERE clause selects, with their copies
Select(table, rows) == [r \in rows |-> table[r]]

\* the rows of a query result, one after the other
RECURSIVE BagToSeq(_)
BagToSeq(table) ==
    IF BagToSet(table) = {} THEN <<>>
    ELSE LET r == CHOOSE x \in BagToSet(table) : TRUE
         IN  <<r>> \o BagToSeq(table (-) SetToBag({r}))

\* lines 67-70: SELECT DISTINCT model_id, model_version ... WHERE ts::date = %s
DistinctModels(events, day) ==
    {<<r.model_id, r.model_version>> : r \in {x \in BagToSet(events) : x.day = day}}

\* lines 86-91
QueryCurrent(events, model, day) ==
    BagToSeq(Select(events, {r \in BagToSet(events) :
                               /\ r.model_id = model[1]
                               /\ r.model_version = model[2]
                               /\ r.day = day}))

\* lines 103-105: SELECT min(ts)::date
MinDate(events, model) ==
    LET days == {r.day : r \in {x \in BagToSet(events) :
                                   x.model_id = model[1] /\ x.model_version = model[2]}}
    IN  CHOOSE d \in days : \A e \in days : d <= e

\* line 116: LIMIT n without ORDER BY returns any n rows of the result,
\* or all of them when there are no more than n
Limited(table, n) ==
    {b \in SubBag(table) :
        BagCardinality(b) = (IF BagCardinality(table) <= n
                             THEN BagCardinality(table) ELSE n)}

\* the window of line 115 ending one day later (ts::date <= baseline_end)
InWindowClosed(d, min_date, baseline_end) == d >= min_date /\ d <= baseline_end

\* line 115: ts::date >= min_date AND ts::date < baseline_end
InWindow(d, min_date, baseline_end) == d >= min_date /\ d < baseline_end

\* lines 109-118: the results the baseline query may return
QueryBaseline(events, model) ==
    LET min_date == MinDate(events, model)
        baseline_end == min_date + BaselineDays
        rows == {r \in BagToSet(events) :
                   /\ r.model_id = model[1] /\ r.model_version = model[2]
                   /\ InWindow(r.day, min_date, baseline_end)}
    IN  Limited(Select(events, rows), BaselineLimit)

\* the metric names; a PSI metric is named after its feature
Name(s) == <<s, "">>
PsiName(feat) == <<"psi__", feat>>
Metric(name, value) == [metric_name |-> name, metric_value |-> value]

\* the values of a column that are not NULL
RECURSIVE DropNull(_)
DropNull(s) ==
    IF s = <<>> THEN <<>>
    ELSE IF Head(s) = NoLatency THEN DropNull(Tail(s))
    ELSE <<Head(s)>> \o DropNull(Tail(s))

\* lines 121-127 with a missing latency taken as 0 ms
ReliabilityFillZero(df_current) ==
    LET latency == [i \in DOMAIN df_current |->
                      IF df_current[i].latency_ms = NoLatency THEN 0
                      ELSE df_current[i].latency_ms]
        sorted == SortSample(latency)
    IN  << Metric(Name("count_inferences"), <<Len(df_current), 1>>),
           Metric(Name("p50_latency_ms"),
                  IF latency = <<>> THEN <<0, 1>> ELSE <<Quantile(sorted, 1, 2), 2>>),
           Metric(Name("p95_latency_ms"),
                  IF latency = <<>> THEN <<0, 1>> ELSE <<Quantile(sorted, 19, 20), 20>>) >>

\* lines 121-127: count_inferences, median and 0.95 quantile of latency_ms
Reliability(df_current) ==
    LET latency == DropNull([i \in DOMAIN df_current |-> df_current[i].latency_ms])
        sorted == SortSample(latency)
    IN  << Metric(Name("count_inferences"), <<Len(df_current), 1>>),
           Metric(Name("p50_latency_ms"),
                  IF latency = <<>> THEN <<0, 1>> ELSE <<Quantile(sorted, 1, 2), 2>>),
           Metric(Name("p95_latency_ms"),
                  IF latency = <<>> THEN <<0, 1>> ELSE <<Quantile(sorted, 19, 20), 20>>) >>

\* the test of line 134 with `and`
TooFewBoth(df_baseline, df_current) ==
    Len(df_baseline) < MinSamples /\ Len(df_current) < MinSamples

\* line 134
TooFew(df_baseline, df_current) ==
    Len(df_baseline) < MinSamples \/ Len(df_current) < MinSamples

\* the value of compute_psi as a fraction; <<1, 0>> is a positive number
PsiNumber(ret) == IF ret.value = "0.0" THEN <<0, 1>> ELSE <<1, 0>>

\* lines 139-140: the columns of json_normalize are the features that
\* some row of the sample holds
Columns(df) == UNION {DOMAIN df[i].features_json : i \in DOMAIN df}

\* the values of a feature in the rows that hold it (the other rows are
\* NaN in the column)
RECURSIVE Present(_, _)
Present(df, feat) ==
    IF df = <<>> THEN <<>>
    ELSE IF feat \in DOMAIN Head(df).features_json
    THEN <<Head(df).features_json[feat]>> \o Present(Tail(df), feat)
    ELSE Present(Tail(df), feat)

\* line 153, is_numeric_dtype: the column holds numbers and NaN only
IsNumeric(df, feat) ==
    \A i \in DOMAIN Present(df, feat) : Present(df, feat)[i].kind = "num"

\* line 156: the column without its NaN, as a sample of compute_psi
Sample(df, feat) ==
    [i \in DOMAIN Present(df, feat) |-> Present(df, feat)[i].v]

\* MODEL_DRIFT_FEATURES is not set: "".split(",") (line 11)
NoDriftFeatures == <<"">>

\* Values of DRIFT_Features, the variable split at its commas: not set,
\* one feature, a feature between blanks and a trailing comma, a feature
\* no event has next to one that some have, a feature that is a string in
\* some events next to a numeric one, and a feature named twice.
DriftFeaturesEnv ==
    { NoDriftFeatures, <<"x">>, <<" x ", "">>, <<"z", "y">>, <<"s", "x">>,
      <<"x", "x">> }

\* str.strip()
Strip(f) == CASE f = " x " -> "x" [] f = " " -> "" [] OTHER -> f

\* line 144: [f.strip() for f in DRIFT_Features if f.strip()]
RECURSIVE DriftFeatsConfig(_)
DriftFeatsConfig(raw) ==
    IF raw = <<>> THEN <<>>
    ELSE IF Strip(Head(raw)) # "" THEN <<Strip(Head(raw))>> \o DriftFeatsConfig(Tail(raw))
    ELSE DriftFeatsConfig(Tail(raw))

\* line 146: the whitelist if it names a feature, else the columns of the
\* current sample
FeatureCandidates(raw, pdf_cur_features) ==
    IF DriftFeatsConfig(raw) # <<>> THEN DriftFeatsConfig(raw)
    ELSE BagToSeq(SetToBag(Columns(pdf_cur_features)))

\* lines 148-157: one PSI for each candidate, in order, that is a column
\* of both samples and numeric in both
RECURSIVE PsiLoop(_, _, _)
PsiLoop(feats, df_baseline, df_current) ==
    IF feats = <<>> THEN <<>>
    ELSE
      LET feat == Head(feats)
          rest == PsiLoop(Tail(feats), df_baseline, df_current)
      IN  IF feat \notin Columns(df_current) \/ feat \notin Columns(df_baseline)
          THEN rest
          ELSE IF ~IsNumeric(df_current, feat) \/ ~IsNumeric(df_baseline, feat)
          THEN rest
          ELSE << Metric(PsiName(feat),
                         PsiNumber(compute_psi(Sample(df_baseline, feat),
                                               Sample(df_current, feat),
                                               DefaultBuckets))) >> \o rest

\* lines 134-157
Drift(df_baseline, df_current, raw) ==
    IF TooFew(df_baseline, df_current) THEN <<>>
    ELSE PsiLoop(FeatureCandidates(raw, df_current), df_baseline, df_current)

\* lines 162-168: inference_events JOIN label_events ON request_id, the
\* inference rows being those of the model, version and day
RECURSIVE JoinLabels(_, _)
JoinLabels(df_current, labels) ==
    IF df_current = <<>> THEN <<>>
    ELSE LET i == Head(df_current)
             matching == SelectSeq(labels, LAMBDA l : l.request_id = i.request_id)
         IN  [k \in DOMAIN matching |->
                [y_pred_num |-> i.y_pred_num,
                 y_true_num |-> matching[k].y_true_num,
                 pred_type |-> i.pred_type]]
             \o JoinLabels(Tail(df_current), labels)

RECURSIVE SumAbsError(_)
SumAbsError(df_perf) ==
    IF df_perf = <<>> THEN 0
    ELSE LET d == Head(df_perf).y_true_num - Head(df_perf).y_pred_num
         IN  (IF d < 0 THEN -d ELSE d) + SumAbsError(Tail(df_perf))

\* lines 170-194
Performance(df_perf) ==
    IF Len(df_perf) >= MinSamples
    THEN IF df_perf[1].pred_type = "regression"
         THEN << Metric(Name("mae"), <<SumAbsError(df_perf), Len(df_perf)>>) >>
         ELSE IF df_perf[1].pred_type = "classification"
         THEN << Metric(Name("f1"), F1Score(df_perf).f1) >>
         ELSE <<>>
    ELSE <<>>

\* lines 79-194: what process_model_metrics reads and computes, the
\* baseline query having returned df_baseline
ComputeMetrics(events, labels, model, day, raw, df_baseline) ==
    LET df_current == QueryCurrent(events, model, day)
        df_perf == JoinLabels(df_current, BagToSeq(labels))
    IN  [metrics |-> Reliability(df_current) \o Drift(df_baseline, df_current, raw)
                       \o Performance(df_perf),
         n_current |-> Len(df_current),
         n_baseline |-> Len(df_baseline),
         n_perf |-> Len(df_perf)]

\* a plain INSERT of the metric
InsertOnly(rows, row) == rows \cup {row}

\* lines 198-203: INSERT ... ON CONFLICT (day, model_id, model_version,
\* metric_name) DO UPDATE SET metric_value, created_at
Upsert(rows, row) ==
    {r \in rows : ~(/\ r.day = row.day
                    /\ r.model_id = row.model_id
                    /\ r.model_version = row.model_version
                    /\ r.metric_name = row.metric_name)} \cup {row}

\* lines 205-209: the tuples of one model, stored by one statement at the
\* time NOW() of the transaction
RECURSIVE UpsertAll(_, _, _, _, _)
UpsertAll(rows, day, model, metrics, created_at) ==
    IF metrics = <<>> THEN rows
    ELSE UpsertAll(Upsert(rows, [day |-> day, model_id |-> model[1],
                                 model_version |-> model[2],
                                 metric_name |-> Head(metrics).metric_name,
                                 metric_value |-> Head(metrics).metric_value,
                                 created_at |-> created_at]),
                   day, model, Tail(metrics), created_at)

\* the store first deleting the rows of the day and model
StoreMetricsReplacing(rows, day, model, metrics, created_at) ==
    UpsertAll({r \in rows : ~(/\ r.day = day
                              /\ r.model_id = model[1]
                              /\ r.model_version = model[2])},
              day, model, metrics, created_at)

\* lines 197-208: the one statement of the store and its commit
StoreMetrics(rows, day, model, metrics, created_at) ==
    UpsertAll(rows, day, model, metrics, created_at)

\* the orders in which a query may return the rows of a set
Orders(S) ==
    {s \in [1..Cardinality(S) -> S] : \A a, b \in DOMAIN s : a # b => s[a] # s[b]}

clientvars == <<enabled, dsn, batch_size, flush_seconds, buffer, last_flush_time,
                dropped_events, flush_failures, insert_success, pc, accepted,
                overflowed, ambiguous, popped, last>>

\* a client commits an event
IngestEvent ==
    /\ BagCardinality(inference_events) < MaxDbEvents
    /\ \E day \in Days, model \in Models, rid \in RequestIds :
         inference_events' = inference_events (+) SetToBag({JobEvent(day, model, rid)})
    /\ UNCHANGED <<clientvars, now, label_events, metrics_daily, txn, job, calc>>

\* a label arrives
IngestLabel ==
    /\ BagCardinality(label_events) < MaxLabels
    /\ \E model \in Models, rid \in LabelledIds :
         label_events' = label_events (+) SetToBag({JobLabel(model[1], rid)})
    /\ UNCHANGED <<clientvars, now, inference_events, metrics_daily, txn, job, calc>>

\* a feature event is committed
IngestFeatures ==
    /\ BagCardinality(inference_events) < 2 * MinSamples
    /\ \E day \in Days, f \in FeatureMaps :
         inference_events' = inference_events (+) SetToBag({FeatureEvent(day, f)})
    /\ UNCHANGED <<clientvars, now, label_events, metrics_daily, txn, job, calc>>

\* run_job, lines 52-70, of the process j loaded with DRIFT_Features = raw:
\* the target day and the models active on it; the query opens the
\* transaction of the connection.  NOW() of a transaction is the clock at
\* its first statement; the clock has moved on before the next transaction
\* begins.
RunJob(j, raw) ==
    /\ job[j].pc = "idle"
    /\ job[j].runs < MaxRuns
    /\ \E day \in Days :
         \E models \in Orders(DistinctModels(inference_events, day)) :
            job' = [job EXCEPT ![j] =
                      IF models = <<>>
                      THEN [IdleJob EXCEPT !.runs = job[j].runs + 1]
                      ELSE [@ EXCEPT !.pc = "running",
                                     !.runs = @ + 1,
                                     !.target_day = day,
                                     !.models = models,
                                     !.in_txn = TRUE,
                                     !.txn_start = now,
                                     !.drift_features = raw]]
    /\ now' = now + 1
    /\ UNCHANGED <<clientvars, inference_events, label_events,
                   metrics_daily, txn, calc>>

\* a job starts without a whitelist; the jobs are numbered in the order
\* they start
JobStart ==
    \E j \in Jobs :
        /\ \A i \in 1..(j - 1) : job[i].runs > 0
        /\ RunJob(j, NoDriftFeatures)

\* one job starts alone, whatever MODEL_DRIFT_FEATURES is set to
JobStartDrift ==
    \E raw \in DriftFeaturesEnv :
        /\ \A i \in Jobs \ {1} : job[i].pc = "idle"
        /\ RunJob(1, raw)

\* process_model_metrics, lines 79-194, for the next model of the loop of
\* lines 72-74
JobCompute ==
    /\ \E j \in Jobs :
         /\ job[j].pc = "running"
         /\ LET model == Head(job[j].models)
                day == job[j].target_day
            IN  IF QueryCurrent(inference_events, model, day) = <<>>
                THEN /\ job' = [job EXCEPT ![j] =
                               IF Tail(job[j].models) = <<>>
                               THEN [IdleJob EXCEPT !.runs = job[j].runs,
                                                    !.replaced = job[j].replaced]
                               ELSE [@ EXCEPT !.models = Tail(@),
                                              !.in_txn = TRUE,
                                              !.txn_start = IF job[j].in_txn
                                                            THEN @ ELSE now]]
                     /\ now' = IF job[j].in_txn THEN now ELSE now + 1
                ELSE \E df_baseline \in QueryBaseline(inference_events, model) :
                     \E r \in {ComputeMetrics(inference_events, label_events, model,
                                               day, job[j].drift_features,
                                               BagToSeq(df_baseline))} :
                     /\ job' = [job EXCEPT ![j] =
                                 [@ EXCEPT !.pc = "store",
                                           !.baseline = df_baseline,
                                           !.metrics = r.metrics,
                                           !.n_current = r.n_current,
                                           !.n_baseline = r.n_baseline,
                                           !.n_perf = r.n_perf,
                                           !.in_txn = TRUE,
                                           !.txn_start = IF job[j].in_txn THEN @ ELSE now]]
                     /\ now' = IF job[j].in_txn THEN now ELSE now + 1
    /\ UNCHANGED <<clientvars, inference_events, label_events,
                   metrics_daily, txn, calc>>

\* The process of job j has ended: an exception left run_job, or the loop
\* of lines 72-74 is over.
Ended(j) == [IdleJob EXCEPT !.runs = job[j].runs, !.replaced = job[j].replaced]

\* lines 72-74: process_model_metrics is called outside any try, so an
\* exception it raises leaves run_job and ends the process; the models
\* still in the loop are not processed
Abort(j) == Ended(j)

\* the rows of one INSERT ... ON CONFLICT DO UPDATE must differ in their
\* key, or the statement fails (it cannot affect a row a second time)
OneRowPerKey(metrics) ==
    \A a, b \in DOMAIN metrics :
        a # b => metrics[a].metric_name # metrics[b].metric_name

\* process_model_metrics, lines 197-209: the upsert and its commit; after
\* the last model run_job closes the connection (line 76).  When the
\* statement fails the exception leaves run_job.
JobStore ==
    /\ \E j \in Jobs :
         /\ job[j].pc = "store"
         /\ IF OneRowPerKey(job[j].metrics)
            THEN
              /\ metrics_daily' = StoreMetrics(metrics_daily, job[j].target_day,
                                               Head(job[j].models), job[j].metrics,
                                               job[j].txn_start)
              /\ LET replaced ==
                         \/ job[j].replaced
                         \/ \E r \in metrics_daily \ metrics_daily' :
                               \E k \in DOMAIN job[j].metrics :
                                  /\ r.metric_name = job[j].metrics[k].metric_name
                                  /\ r.metric_value # job[j].metrics[k].metric_value
                 IN  job' = [job EXCEPT ![j] =
                               IF Tail(job[j].models) = <<>>
                               THEN [Ended(j) EXCEPT !.replaced = replaced]
                               ELSE [Ended(j) EXCEPT
                                       !.replaced = replaced,
                                       !.pc = "running",
                                       !.target_day = job[j].target_day,
                                       !.models = Tail(job[j].models),
                                       !.drift_features = job[j].drift_features]]
            ELSE
              /\ job' = [job EXCEPT ![j] = Abort(j)]
              /\ UNCHANGED metrics_daily
    /\ UNCHANGED <<clientvars, now, inference_events, label_events, txn, calc>>

\* a query of process_model_metrics (lines 91, 104, 118, 170) or the
\* upsert and its commit (lines 207-208) raises psycopg2.Error: the open
\* transaction is never committed
JobFail ==
    /\ \E j \in Jobs :
         /\ job[j].pc \in {"running", "store"}
         /\ job' = [job EXCEPT ![j] = Abort(j)]
    /\ UNCHANGED <<clientvars, now, inference_events, label_events,
                   metrics_daily, txn, calc>>

\* the tables empty, no job running, next to a client that was enabled by
\* DRIFTWATCH_ENABLED=true
InitJob == InitSan /\ last.arg = Scalar("str", "true")

NextJob ==
    IngestEvent \/ IngestLabel \/ JobStart \/ JobCompute \/ JobStore \/ JobFail

JobSpec == InitJob /\ [][NextJob]_vars

\* One job, loaded with any of the whitelists, on events of one model
\* that differ in their features.
NextDrift == IngestFeatures \/ JobStartDrift \/ JobCompute \/ JobStore

DriftSpec == InitJob /\ [][NextDrift]_vars

\* ------------------------------------------------------------------------
\* Properties
\* ------------------------------------------------------------------------
\* The persisted or buffered fields that the client sanitized.
NonFiniteFloat(val) == val.type = "float" /\ val.v \in {"nan", "inf", "-inf"}

RECURSIVE HasNonFinite(_)
HasNonFinite(val) ==
    NonFiniteFloat(val) \/ \E i \in DOMAIN val.items : HasNonFinite(val.items[i])

\* The step is a log_inference call that appended an event.
Enqueued == accepted' = accepted + 1

\* The ids of the events in the buffer right after the append of the step,
\* before the flush the call may have made.
AfterAppend == last'.batch \o Ids(buffer')

\* C1: the buffer never holds more than MAX_BUFFER events.
C1_BufferBounded == Len(buffer) <= MAX_BUFFER

C1_Witness == Len(buffer) = MAX_BUFFER /\ dropped_events > 0

\* C2: an enqueue on a full buffer discards exactly the oldest event, counts
\* one drop and makes the new event the newest; dropped_events is the number
\* of events the overflow discarded; the buffer is always the newest events
\* in enqueue order, and with no dequeue so far it holds the
\* min(n, MAX_BUFFER) most recent of the n events enqueued.
C2_DropOldest ==
    /\ [](/\ dropped_events = Cardinality(overflowed)
          /\ Ids(buffer) = [i \in 1..Len(buffer) |-> accepted - Len(buffer) + i]
          /\ popped = 0 =>
               Len(buffer) = (IF accepted < MAX_BUFFER THEN accepted ELSE MAX_BUFFER))
    /\ [][Enqueued =>
            IF Len(buffer) = MAX_BUFFER
            THEN /\ dropped_events' = dropped_events + 1
                 /\ overflowed' = overflowed \cup {buffer[1].id}
                 /\ buffer[1].id \notin overflowed
                 /\ AfterAppend = Tail(Ids(buffer)) \o <<accepted'>>
            ELSE /\ dropped_events' = dropped_events
                 /\ overflowed' = overflowed
                 /\ AfterAppend = Ids(buffer) \o <<accepted'>>]_vars

C2_Witness ==
    /\ last.op = "log_inference"
    /\ dropped_events = 1
    /\ Len(buffer) = MAX_BUFFER
    /\ buffer[1].id = 2
    /\ buffer[Len(buffer)].id = MAX_BUFFER + 1

C4_AtMostOnce ==
    \A i, j \in DOMAIN inference_events :
        i # j => inference_events[i].id # inference_events[j].id

\* C5: log_inference invokes flush() exactly when the buffered count has
\* reached batch_size or flush_seconds have passed since last_flush_time, and
\* no call attempts a write with an empty batch.
C5_FlushTrigger ==
    /\ [](last.attempts > 0 => last.batch # <<>>)
    /\ [][Enqueued =>
            (last'.flushed <=>
                \/ (IF Len(buffer) < MAX_BUFFER THEN Len(buffer) + 1 ELSE MAX_BUFFER)
                      >= batch_size
                \/ now - last_flush_time >= flush_seconds)]_vars

\* A flush that only the elapsed time can have caused.
C5_Witness ==
    /\ last.op = "log_inference"
    /\ last.flushed
    /\ last.attempts > 0
    /\ Len(last.batch) < batch_size

\* C6: no call of log_inference, flush or close raises to its caller.
C6_NeverRaises == ~last.raised

\* C7: close(), once called on an enabled client, comes to an end.
C7_CloseTerminates == (pc = "closing") ~> (pc = "idle")

\* C8: the client is enabled only if the flag is true and the destination is
\* present; a disabled client stays disabled and its calls change nothing and
\* attempt no write; flush() on an empty buffer changes nothing either.
C8_DisabledNoOp ==
    /\ [](last.op = "__init__" =>
            (enabled <=> /\ last.arg.v \in {"unset", "true", "TRUE"}
                         /\ dsn \notin {"None", ""}))
    /\ [](~enabled => buffer = <<>>)
    /\ [][~enabled =>
            /\ ~enabled'
            /\ last'.attempts = 0
            /\ UNCHANGED <<buffer, counters, last_flush_time, inference_events>>]_vars
    /\ [][(last'.op = "flush" /\ last' # last /\ buffer = <<>>) =>
            /\ last'.attempts = 0
            /\ UNCHANGED <<buffer, counters, last_flush_time, inference_events>>]_vars

C8_Witness ==
    /\ ~enabled
    /\ dsn = "None"
    /\ last.op = "log_inference"

\* C9: no event in the buffer or in storage has a non-finite number in its
\* feature or segment map, at any depth.
C9_NoNonFinite ==
    /\ \A i \in DOMAIN buffer :
         ~HasNonFinite(buffer[i].features_json) /\ ~HasNonFinite(buffer[i].segment_json)
    /\ \A i \in DOMAIN inference_events :
         /\ ~HasNonFinite(inference_events[i].features_json)
         /\ ~HasNonFinite(inference_events[i].segment_json)

\* C10: _sanitize maps NaN and the infinities to None, returns every other
\* scalar unchanged, is idempotent, and changes nothing of the client.
C10_Sanitize ==
    /\ [](last.op = "_sanitize" =>
            /\ NonFiniteFloat(last.arg) => last.ret = PyNone
            /\ (last.arg.items = <<>> /\ ~NonFiniteFloat(last.arg)) => last.ret = last.arg
            /\ _sanitize(last.ret) = last.ret)
    /\ [][last'.op = "_sanitize" =>
            UNCHANGED <<config, buffer, last_flush_time, counters,
                        inference_events>>]_vars

C10_Witness ==
    /\ last.op = "_sanitize"
    /\ last.arg = PyFloat("nan")
    /\ last.ret = PyNone

\* ------------------------------------------------------------------------
\* C17: one flush of a non-empty batch attempts the write at least once and
\* at most 5 times and stops at the first success; the sleep between failed
\* attempt k and attempt k+1 is 0.5 * 2^(k-1) s, that is 2^(k-1) half
\* seconds, no sleep follows the fifth failed attempt, and every flush
\* starts again at 0.5 s.
\* ------------------------------------------------------------------------
C17_RetryBackoff ==
    (last.flushed /\ last.batch # <<>>) =>
        /\ last.attempts \in 1..5
        /\ Len(last.tried) = last.attempts
        /\ \A i \in 1..(last.attempts - 1) : last.tried[i] = "failed"
        /\ Len(last.slept) = last.attempts - 1
        /\ \A k \in 1..Len(last.slept) : k <= 4 /\ last.slept[k] = 2 ^ (k - 1)

\* a second flush of the client that failed five times and slept 0.5, 1, 2
\* and 4 s, after an earlier flush had already slept
C17_Witness ==
    /\ last.flushed /\ last.batch # <<>>
    /\ last.attempts = 5 /\ last.result = "exhausted"
    /\ last.slept = <<1, 2, 4, 8>>
    /\ flush_failures >= 2

\* ------------------------------------------------------------------------
\* C18: a flush whose write succeeds, at whichever attempt, adds the number
\* of events of its batch to insert_success, leaves flush_failures alone,
\* leaves dropped_events alone (in a log_inference call it moves only by
\* the overflow of the enqueue that precedes the flush), sets
\* last_flush_time to the time of the success, and all events of the batch
\* are in storage; and last_flush_time changes in no other step.
\* ------------------------------------------------------------------------
C18_SuccessAccounting ==
    [][/\ (last'.result = "ok" /\ last' # last) =>
            /\ insert_success' = insert_success + Len(last'.batch)
            /\ flush_failures' = flush_failures
            /\ dropped_events' = dropped_events +
                                  (IF overflowed' # overflowed THEN 1 ELSE 0)
            /\ (last'.op # "log_inference") => (dropped_events' = dropped_events)
            /\ last_flush_time' = now'
            /\ now' >= now
            /\ \A i \in DOMAIN last'.batch :
                  \E j \in DOMAIN inference_events' :
                      inference_events'[j].id = last'.batch[i]
       /\ (last_flush_time' # last_flush_time) =>
            (last'.result = "ok" /\ last' # last)]_vars

\* a batch of two events written at the fifth attempt, the clock having
\* moved on during the flush
C18_Witness ==
    /\ last.result = "ok"
    /\ last.attempts = 5
    /\ Len(last.batch) = 2
    /\ insert_success = 2
    /\ last_flush_time = now /\ now > 0

\* ------------------------------------------------------------------------
\* C20: flush() takes the oldest events of the buffer in FIFO order, so the
\* events in storage, in commit order, are a subsequence of the enqueue
\* order: no event in storage was committed before an event that was
\* enqueued earlier (ids number the events in enqueue order).
\* ------------------------------------------------------------------------
C20_CommitOrder ==
    \A i, j \in DOMAIN inference_events :
        i < j => inference_events[i].id <= inference_events[j].id

\* ------------------------------------------------------------------------
\* C19: every batch handed to storage is written atomically: in every
\* state, also after an attempt failed part-way, the committed rows hold
\* all events of the batch or none, and so does every result of a query of
\* a concurrently running Metrics Job.
\* ------------------------------------------------------------------------
Whole(b, rows) ==
    LET stored == {rows[i].id : i \in DOMAIN rows}
    IN  \/ \A k \in DOMAIN b : b[k] \in stored
        \/ \A k \in DOMAIN b : b[k] \notin stored

C19_BatchAtomic ==
    \A b \in txn.handed :
        /\ Whole(b, inference_events)
        /\ \A j \in DOMAIN job : Whole(b, job[j].seen)

\* a job queried while the second batch, after a failed attempt, had one
\* of its two rows inserted, and saw the first batch only
C19_Witness ==
    /\ txn.open /\ txn.attempt >= 1
    /\ Ids(txn.batch) = <<3, 4>>
    /\ Len(txn.rows) = 1
    /\ job[1].at = 1
    /\ Ids(job[1].seen) = <<1, 2>>

\* ------------------------------------------------------------------------
\* C15: compute_psi returns exactly 0.0 when the baseline sample or the
\* current sample is empty, whatever the bucket count.  (The call returns a
\* value: the model has no raising path before the test of line 23.)
\* ------------------------------------------------------------------------
C15_EmptySample ==
    (calc.fn = "compute_psi" /\ (calc.expected = <<>> \/ calc.actual = <<>>)) =>
        calc.ret.value = "0.0"

\* an empty current sample against a non-empty baseline, 10 buckets
C15_Witness ==
    /\ calc.fn = "compute_psi"
    /\ calc.expected # <<>> /\ calc.actual = <<>>
    /\ calc.buckets = 10
    /\ calc.ret.value = "0.0"

\* ------------------------------------------------------------------------
\* C16: compute_psi(s, s) is 0 for every non-empty sample s.
\* ------------------------------------------------------------------------
C16_SelfPsiZero ==
    (calc.fn = "compute_psi" /\ calc.expected # <<>> /\ calc.actual = calc.expected) =>
        calc.ret.value = "0.0"

\* a sample against itself with a bin that holds none of its values, so
\* that the 0.0001 floor is applied on both sides
C16_Witness ==
    /\ calc.fn = "compute_psi"
    /\ calc.expected # <<>> /\ calc.actual = calc.expected
    /\ \E i \in DOMAIN calc.ret.actual_counts : calc.ret.actual_counts[i] = 0
    /\ calc.ret.value = "0.0"

\* ------------------------------------------------------------------------
\* C14: a prediction is positive iff its probability is >= 0.5, a truth is
\* positive iff its integer cast is 1; with tp, fp and fn counted from
\* these, precision = tp/(tp+fp), recall = tp/(tp+fn) and
\* F1 = 2*precision*recall/(precision+recall), each 0 when its denominator
\* is 0; F1 = 1 exactly when fp = fn = 0 and tp > 0, and F1 = 0 when tp = 0.
\* ------------------------------------------------------------------------
PositivePred(row) == row.y_pred_num >= 5
PositiveTruth(row) == row.y_true_num \div 10 = 1
SameFraction(a, b) == a[1] * b[2] = b[1] * a[2]

C14_F1 ==
    (calc.fn = "f1") =>
        LET rows == calc.rows
            tp == Cardinality({i \in DOMAIN rows :
                                  PositivePred(rows[i]) /\ PositiveTruth(rows[i])})
            fp == Cardinality({i \in DOMAIN rows :
                                  PositivePred(rows[i]) /\ ~PositiveTruth(rows[i])})
            fn == Cardinality({i \in DOMAIN rows :
                                  ~PositivePred(rows[i]) /\ PositiveTruth(rows[i])})
            precision == IF tp + fp > 0 THEN <<tp, tp + fp>> ELSE <<0, 1>>
            recall == IF tp + fn > 0 THEN <<tp, tp + fn>> ELSE <<0, 1>>
            sum == precision[1] * recall[2] + recall[1] * precision[2]
            f1 == IF sum > 0 THEN <<2 * precision[1] * recall[1], sum>> ELSE <<0, 1>>
        IN  /\ SameFraction(calc.ret.f1, f1)
            /\ SameFraction(calc.ret.f1, <<1, 1>>) <=> (fp = 0 /\ fn = 0 /\ tp > 0)
            /\ (tp = 0) => SameFraction(calc.ret.f1, <<0, 1>>)

\* ------------------------------------------------------------------------
\* C11: whatever runs of the job took place, one after the other or
\* interleaved, the metrics table holds at most one row per (day, model,
\* version, metric name); storing a metric whose key exists overwrites the
\* value with the one stored last and sets the timestamp to the NOW() of
\* the storing transaction, and adds no row.
\* ------------------------------------------------------------------------
\* The step is the store of job j: its upsert and commit took place.
Stores(j) ==
    job[j].pc = "store" /\ job'[j] # job[j] /\ metrics_daily' # metrics_daily

SameKey(r, s) ==
    /\ r.day = s.day
    /\ r.model_id = s.model_id
    /\ r.model_version = s.model_version
    /\ r.metric_name = s.metric_name

Keys(rows) == {<<r.day, r.model_id, r.model_version, r.metric_name>> : r \in rows}

C11_UpsertUnique ==
    /\ [](\A r, s \in metrics_daily : SameKey(r, s) => r = s)
    /\ [][\A j \in Jobs :
            Stores(j) =>
                LET model == Head(job[j].models)
                    stored == {[day |-> job[j].target_day,
                                model_id |-> model[1], model_version |-> model[2],
                                metric_name |-> job[j].metrics[k].metric_name,
                                metric_value |-> job[j].metrics[k].metric_value,
                                created_at |-> job[j].txn_start] :
                                   k \in DOMAIN job[j].metrics}
                IN  /\ stored \subseteq metrics_daily'
                    /\ Keys(metrics_daily') = Keys(metrics_daily) \cup Keys(stored)
                    /\ Cardinality(metrics_daily') = Cardinality(Keys(metrics_daily'))]_vars

\* two jobs have run, and one of them has overwritten a row that held
\* another value with a later timestamp
C11_Witness ==
    /\ \A j \in 1..2 : job[j].runs = 1 /\ job[j].pc = "idle"
    /\ \E j \in 1..2 : job[j].replaced
    /\ \E r \in metrics_daily : r.created_at > 0

\* ------------------------------------------------------------------------
\* C12: when the baseline sample or the current-day sample of a (model,
\* version, day) has fewer rows than the threshold (200, here MinSamples),
\* the job computes no psi__ metric for it and stores none, and the three
\* reliability metrics of the run are still computed and stored.
\* ------------------------------------------------------------------------
IsPsi(name) == name[1] = "psi__"
ReliabilityNames ==
    {Name("count_inferences"), Name("p50_latency_ms"), Name("p95_latency_ms")}
NamesOf(metrics) == {metrics[k].metric_name : k \in DOMAIN metrics}

C12_DriftThreshold ==
    [][\A j \in Jobs :
         /\ (job[j].pc = "running" /\ job'[j].pc = "store"
             /\ (job'[j].n_baseline < MinSamples \/ job'[j].n_current < MinSamples)) =>
                /\ \A name \in NamesOf(job'[j].metrics) : ~IsPsi(name)
                /\ ReliabilityNames \subseteq NamesOf(job'[j].metrics)
         /\ (Stores(j)
             /\ (job[j].n_baseline < MinSamples \/ job[j].n_current < MinSamples)) =>
                /\ \A r \in metrics_daily' \ metrics_daily : ~IsPsi(r.metric_name)
                /\ \A name \in ReliabilityNames :
                     \E r \in metrics_daily' :
                        /\ r.day = job[j].target_day
                        /\ <<r.model_id, r.model_version>> = Head(job[j].models)
                        /\ r.metric_name = name
                        /\ r.created_at = job[j].txn_start]_vars

\* a job about to store the metrics of a day with too few rows, the
\* baseline being large enough
C12_Witness ==
    \E j \in Jobs :
        /\ job[j].pc = "store"
        /\ job[j].n_baseline >= MinSamples
        /\ job[j].n_current > 0 /\ job[j].n_current < MinSamples
        /\ NamesOf(job[j].metrics) = ReliabilityNames

\* ------------------------------------------------------------------------
\* C13: mae or f1 is produced for a (model, version, day) only if at least
\* 200 (here MinSamples) inference events of that model, version and day
\* have a label with their request identifier; several labels of one
\* event, or a label of another model, do not raise the count.
\* ------------------------------------------------------------------------
LabelledEvents(model, day) ==
    LET labelled == {e \in BagToSet(inference_events) :
                       /\ e.model_id = model[1] /\ e.model_version = model[2]
                       /\ e.day = day
                       /\ \E l \in BagToSet(label_events) :
                             l.request_id = e.request_id /\ l.model_id = e.model_id}
    IN  BagCardinality(Select(inference_events, labelled))

C13_LabelledEvents ==
    [][\A j \in Jobs :
         (job[j].pc = "running" /\ job'[j].pc = "store"
          /\ NamesOf(job'[j].metrics) \cap {Name("mae"), Name("f1")} # {}) =>
             LabelledEvents(Head(job[j].models), job[j].target_day) >= MinSamples]_vars

\* ------------------------------------------------------------------------
\* C25: every event that log_inference has put into the buffer carries a
\* request identifier that is not None, and no two events carry the same
\* one.
\* ------------------------------------------------------------------------
C25_RequestId ==
    /\ \A i \in DOMAIN buffer : buffer[i].request_id # PyNone
    /\ \A i, j \in DOMAIN buffer :
          i # j => buffer[i].request_id # buffer[j].request_id

\* ------------------------------------------------------------------------
\* C26: between calls, every event log_inference has accepted is in the
\* buffer, or counted in insert_success, or counted in dropped_events, or
\* in a batch whose attempts were exhausted.  The events of failed batches
\* have no counter of their own, so the balance
\*   accepted = len(buffer) + insert_success + dropped_events + failed
\* is stated step by step: it holds at construction with failed = 0, and
\* every call moves accepted by as much as the four terms together, the
\* exhausted batch of a call being the only thing that adds to `failed`.
\* The three counters never decrease, and flush_failures counts one per
\* exhausted batch, whatever its size.
\* ------------------------------------------------------------------------
ExhaustedNow == last' # last /\ last'.result = "exhausted"

C26_Accounting ==
    /\ [](last.op = "__init__" =>
            /\ accepted = 0 /\ buffer = <<>>
            /\ insert_success = 0 /\ dropped_events = 0 /\ flush_failures = 0)
    /\ [][/\ accepted' - accepted =
               (Len(buffer') - Len(buffer))
               + (insert_success' - insert_success)
               + (dropped_events' - dropped_events)
               + (IF ExhaustedNow THEN Len(last'.batch) ELSE 0)
          /\ insert_success' >= insert_success
          /\ dropped_events' >= dropped_events
          /\ flush_failures' =
               flush_failures + (IF ExhaustedNow THEN 1 ELSE 0)]_vars

\* ------------------------------------------------------------------------
\* C27: on an enabled client with batch_size >= 1 the buffer holds fewer
\* than batch_size events whenever no call is running; a call that runs
\* flush() runs it once (one batch of at most batch_size events, at most
\* MAX_RETRIES attempts) and leaves the buffer empty whatever the outcome
\* of the write; and when 1 <= batch_size <= MAX_BUFFER the buffer is
\* never full between two calls, no event is ever discarded by overflow
\* and dropped_events stays 0.
\* ------------------------------------------------------------------------
C27_BelowBatchSize ==
    /\ []((enabled /\ batch_size >= 1 /\ pc = "idle") => Len(buffer) < batch_size)
    /\ []((enabled /\ 1 <= batch_size /\ batch_size <= MAX_BUFFER) =>
            /\ Len(buffer) < MAX_BUFFER
            /\ dropped_events = 0
            /\ overflowed = {})
    /\ [][(enabled /\ batch_size >= 1 /\ last' # last /\ last'.flushed) =>
            /\ buffer' = <<>>
            /\ popped' - popped = Len(last'.batch)
            /\ Len(last'.batch) <= batch_size
            /\ last'.attempts <= MAX_RETRIES]_vars

\* more events accepted than the buffer can hold, every write failed, and
\* nothing was discarded by overflow
C27_Witness ==
    /\ enabled /\ 1 <= batch_size /\ batch_size <= MAX_BUFFER
    /\ accepted > MAX_BUFFER
    /\ insert_success = 0 /\ inference_events = <<>>
    /\ flush_failures >= 2
    /\ dropped_events = 0
    /\ pc = "idle"

\* ------------------------------------------------------------------------
\* C21: a run of the job that has discovered several (model, version)
\* pairs goes on to the next pair whatever happens while it fetches,
\* computes or stores the metrics of one of them: as long as pairs are
\* left to process, the run does not end.
\* ------------------------------------------------------------------------
C21_Isolation ==
    [][\A j \in Jobs :
         (job[j].pc \in {"running", "store"} /\ Tail(job[j].models) # <<>>) =>
             job'[j].pc # "idle"]_vars

\* ------------------------------------------------------------------------
\* C22: a run discovers every (model, version) that has an event on the
\* target day; for each of them it computes count_inferences as the
\* number of the pair's events of that day, p50_latency_ms as the median
\* and p95_latency_ms as the 0.95 quantile (linear interpolation) of the
\* latencies that are not missing, both 0 when all are missing; and the
\* store of the pair writes these three metrics, whether or not drift or
\* performance metrics were computed.
\* ------------------------------------------------------------------------
\* the events of the pair on the day
EventsOn(model, day) ==
    Select(inference_events,
           {e \in BagToSet(inference_events) :
               /\ e.model_id = model[1] /\ e.model_version = model[2]
               /\ e.day = day})

\* their latencies that are not missing, in ascending order
Latencies(model, day) ==
    LET rows == BagToSeq(EventsOn(model, day))
    IN  SortSample(SelectSeq([i \in DOMAIN rows |-> rows[i].latency_ms],
                             LAMBDA l : l # NoLatency))

\* the median of an ascending, non-empty sequence
MedianOf(v) == <<v[(Len(v) + 1) \div 2] + v[(Len(v) \div 2) + 1], 2>>

\* its 0.95 quantile: the value at position 0.95 * (n - 1), counted from
\* 0, between the two values next to that position
Percentile95Of(v) ==
    LET lo == ((19 * (Len(v) - 1)) \div 20) + 1
        part == (19 * (Len(v) - 1)) % 20
        hi == IF part = 0 THEN lo ELSE lo + 1
    IN  <<(20 - part) * v[lo] + part * v[hi], 20>>

\* the values computed under the name, in the order of the list
ValuesOf(metrics, name) ==
    SelectSeq(metrics, LAMBDA m : m.metric_name = name)

C22_Reliability ==
    [][\A j \in Jobs :
         /\ (job[j].pc = "idle" /\ job'[j].runs = job[j].runs + 1) =>
               \E day \in Days :
                  /\ job'[j].models # <<>> => job'[j].target_day = day
                  /\ {job'[j].models[k] : k \in DOMAIN job'[j].models} =
                        {pair \in Models : BagToSet(EventsOn(pair, day)) # {}}
         /\ (job[j].pc = "running" /\ job'[j].pc = "store") =>
               LET model == Head(job[j].models)
                   day == job[j].target_day
                   v == Latencies(model, day)
                   count == ValuesOf(job'[j].metrics, Name("count_inferences"))
                   p50 == ValuesOf(job'[j].metrics, Name("p50_latency_ms"))
                   p95 == ValuesOf(job'[j].metrics, Name("p95_latency_ms"))
               IN  /\ BagCardinality(EventsOn(model, day)) >= 1
                   /\ Len(count) = 1 /\ Len(p50) = 1 /\ Len(p95) = 1
                   /\ count[1].metric_value = <<BagCardinality(EventsOn(model, day)), 1>>
                   /\ IF v = <<>>
                      THEN /\ SameFraction(p50[1].metric_value, <<0, 1>>)
                           /\ SameFraction(p95[1].metric_value, <<0, 1>>)
                      ELSE /\ SameFraction(p50[1].metric_value, MedianOf(v))
                           /\ SameFraction(p95[1].metric_value, Percentile95Of(v))
         /\ Stores(j) =>
               \A name \in ReliabilityNames :
                  \E r \in metrics_daily' :
                     /\ r.day = job[j].target_day
                     /\ <<r.model_id, r.model_version>> = Head(job[j].models)
                     /\ r.metric_name = name
                     /\ r.metric_value = ValuesOf(job[j].metrics, name)[1].metric_value
                     /\ r.created_at = job[j].txn_start]_vars

\* the stored metrics of a day of m1 with two events, one of them without
\* latency: the median is the one latency there is (10 ms), and neither a
\* drift nor a performance metric was stored for the day
C22_Witness ==
    \E c, m \in metrics_daily :
        /\ c.model_id = "m1"
        /\ m.model_id = "m1" /\ m.day = c.day
        /\ c.metric_name = Name("count_inferences") /\ c.metric_value = <<2, 1>>
        /\ m.metric_name = Name("p50_latency_ms")
        /\ SameFraction(m.metric_value, <<10, 1>>)
        /\ \E e \in BagToSet(EventsOn(<<"m1", "v1">>, c.day)) : e.latency_ms = NoLatency
        /\ {r.metric_name : r \in {x \in metrics_daily :
                                      x.model_id = "m1" /\ x.day = c.day}}
              = ReliabilityNames

\* ------------------------------------------------------------------------
\* C23: the baseline sample the job computes with is made of events of the
\* (model, version) only, each dated from `start` up to but not including
\* start + 14 days, where start is the earliest date of any event of the
\* pair; it never holds more than the limit of the query (100000, here
\* BaselineLimit) and holds every event of the window when they are no
\* more than that, so the target day has no part in it: its own events
\* are in the sample when it lies in the window.
\* ------------------------------------------------------------------------
\* the events of the pair, of any day
EventsOf(model) ==
    Select(inference_events,
           {e \in BagToSet(inference_events) :
               e.model_id = model[1] /\ e.model_version = model[2]})

\* the events of the pair dated d, start <= d < start + 14
WindowOf(model) ==
    LET all == BagToSet(EventsOf(model))
        start == CHOOSE d \in {e.day : e \in all} : \A e \in all : d <= e.day
    IN  Select(inference_events,
               {e \in all : start <= e.day /\ e.day < start + 14})

C28_Frame ==
    [][/\ job' # job =>
            /\ inference_events' = inference_events
            /\ label_events' = label_events
       /\ Keys(metrics_daily) \subseteq Keys(metrics_daily')
       /\ metrics_daily' # metrics_daily => \E j \in Jobs : Stores(j)
       /\ \A j \in Jobs :
            Stores(j) =>
               LET day == job[j].target_day
                   model == Head(job[j].models)
                   computed == NamesOf(job[j].metrics)
                   Touched(r) == /\ r.day = day
                                 /\ <<r.model_id, r.model_version>> = model
                                 /\ r.metric_name \in computed
               IN  /\ BagToSet(EventsOn(model, day)) # {}
                   /\ \A r \in metrics_daily' \ metrics_daily : Touched(r)
                   /\ \A r \in metrics_daily : ~Touched(r) => r \in metrics_daily']_vars

\* a later run has stored the count of a day and model without storing a
\* PSI, and the PSI an earlier run stored for them is still there with
\* its earlier timestamp
C28_Witness ==
    \E p, c \in metrics_daily :
        /\ IsPsi(p.metric_name)
        /\ c.metric_name = Name("count_inferences")
        /\ c.day = p.day /\ c.model_id = p.model_id
        /\ c.model_version = p.model_version
        /\ c.created_at > p.created_at

\* ------------------------------------------------------------------------
\* C24: when neither sample is below the threshold, the metrics the job
\* computes hold exactly one psi__<f> for each candidate feature f that
\* some row of the baseline sample and some row of the current sample
\* hold and that is a number wherever it is held, and no psi__ of any
\* other feature; the candidates are the names of the whitelist when it
\* names any, else all features; and the store of the pair writes each of
\* these metrics.
\* ------------------------------------------------------------------------
FeatureNames == {"x", "y", "s", "z"}

\* some row of the sample holds f, and f is a number in every row that
\* holds it
PresentAndNumeric(sample, f) ==
    /\ \E e \in BagToSet(sample) : f \in DOMAIN e.features_json
    /\ \A e \in BagToSet(sample) :
          f \in DOMAIN e.features_json => e.features_json[f].kind = "num"

\* the names of the configured whitelist
Whitelist(raw) == {Strip(raw[i]) : i \in DOMAIN raw} \ {""}

C24_DriftFeatures ==
    [][\A j \in Jobs :
         /\ (job[j].pc = "running" /\ job'[j].pc = "store"
             /\ job'[j].n_baseline >= MinSamples
             /\ job'[j].n_current >= MinSamples) =>
               LET current == EventsOn(Head(job[j].models), job[j].target_day)
                   baseline == job'[j].baseline
                   candidates == IF Whitelist(job[j].drift_features) # {}
                                 THEN Whitelist(job[j].drift_features)
                                 ELSE FeatureNames
                   expected == {f \in candidates :
                                   /\ PresentAndNumeric(baseline, f)
                                   /\ PresentAndNumeric(current, f)}
               IN  \A f \in FeatureNames :
                      Len(ValuesOf(job'[j].metrics, PsiName(f))) =
                         (IF f \in expected THEN 1 ELSE 0)
         /\ (job[j].pc = "store" /\ job'[j] # job[j]) =>
               \A name \in NamesOf(job[j].metrics) :
                  IsPsi(name) =>
                     \E r \in metrics_daily' :
                        /\ r.day = job[j].target_day
                        /\ <<r.model_id, r.model_version>> = Head(job[j].models)
                        /\ r.metric_name = name
                        /\ r.created_at = job[j].txn_start]_vars

====================================================================
